---- MODULE Spec2Model ----
(***************************************************************************)
(* replacer: recursive, concurrent literal search-and-replace under a root *)
(* directory.  One walker goroutine feeds two buffered channels            *)
(* (smallFiles, largeFiles); two pools of workers drain them and rewrite    *)
(* the files; main waits for the workers and prints the collected errors.  *)
(*                                                                         *)
(* A byte string is a sequence of one-character strings.  A file is a      *)
(* record [content, pad, denied]: `content` is the part of the file the    *)
(* model follows byte by byte; `pad` is the number of further bytes that   *)
(* precede it, whole newline-terminated lines in which neither search nor  *)
(* replace shares a byte, so that both rewriters copy them through         *)
(* unchanged (it is what lets a file exceed maxFileSize); `denied` says    *)
(* that opening the file fails.                                            *)
(***************************************************************************)
EXTENDS Integers, Sequences, FiniteSets, TLC

\* runtime.GOMAXPROCS(0): workers per pool, and the capacity of each channel
NumWorkers == 1

\* the longest byte string of the rewriter inputs (content, search, replace)
MaxLen == 3

\* maxFileSize = 2 * 1024 * 1024 * 1024 = 2 * GiB bytes.  The model checker's integers
\* are 32 bits wide and end at maxFileSize - 1, so a size is compared with maxFileSize
\* by the sign of their difference (SizeOver), which every file of the model can form.
GiB == 1024 * 1024 * 1024

NL == "\n"
CR == "\r"

-----------------------------------------------------------------------------
(* strings.ReplaceAll                                                      *)

HasPrefixAt(s, i, old) ==
    /\ i + Len(old) - 1 <= Len(s)
    /\ SubSeq(s, i, i + Len(old) - 1) = old

\* the non-overlapping occurrences of a non-empty old, left to right from i
RECURSIVE ReplaceFrom(_, _, _, _)
ReplaceFrom(s, i, old, new) ==
    IF i > Len(s) THEN <<>>
    ELSE IF HasPrefixAt(s, i, old)
         THEN new \o ReplaceFrom(s, i + Len(old), old, new)
         ELSE <<s[i]>> \o ReplaceFrom(s, i + 1, old, new)

\* an empty old matches before every byte and at the end
RECURSIVE InsertFrom(_, _, _)
InsertFrom(s, i, new) ==
    IF i > Len(s) THEN new
    ELSE new \o <<s[i]>> \o InsertFrom(s, i + 1, new)

\* faulty variant: strings.Replace with n = 1, only the first occurrence is replaced
ReplaceFirst(s, old, new) ==
    IF \E i \in 1 .. Len(s) : HasPrefixAt(s, i, old)
    THEN LET i == CHOOSE k \in 1 .. Len(s) :
                      /\ HasPrefixAt(s, k, old)
                      /\ \A j \in 1 .. k - 1 : ~HasPrefixAt(s, j, old)
         IN  SubSeq(s, 1, i - 1) \o new \o SubSeq(s, i + Len(old), Len(s))
    ELSE s

ReplaceAll(s, old, new) ==
    IF old = new THEN s
    ELSE IF old = <<>> THEN InsertFrom(s, 1, new)
    ELSE ReplaceFrom(s, 1, old, new)

-----------------------------------------------------------------------------
(* bufio.Scanner with the default split function, bufio.ScanLines          *)

\* faulty variant: the carriage return is kept
keepCR(line) == line

dropCR(line) ==
    IF Len(line) > 0 /\ line[Len(line)] = CR
    THEN SubSeq(line, 1, Len(line) - 1)
    ELSE line

\* the tokens scanner.Scan/scanner.Text yield for data s, from position i,
\* cur being the bytes of the line read so far
RECURSIVE ScanFrom(_, _, _)
ScanFrom(s, i, cur) ==
    IF i > Len(s)
    THEN IF cur = <<>> /\ (i = 1 \/ s[i - 1] = NL) THEN <<>> ELSE <<dropCR(cur)>>
    ELSE IF s[i] = NL
         THEN <<dropCR(cur)>> \o ScanFrom(s, i + 1, <<>>)
         ELSE ScanFrom(s, i + 1, Append(cur, s[i]))

ScanLines(s) == ScanFrom(s, 1, <<>>)

RECURSIVE Flatten(_)
Flatten(ss) == IF ss = <<>> THEN <<>> ELSE Head(ss) \o Flatten(Tail(ss))

-----------------------------------------------------------------------------
(* The directory tree.  The entries are fixed; Init chooses what each is.  *)

Root == "r"
Paths == {"r", "r/a", "r/d", "r/d/f", "r/z"}
FilePaths == {"r/a", "r/d/f", "r/z", "t"}

\* the names readDirNames returns for a directory, sorted
Children(p) ==
    CASE p = "r"   -> <<"r/a", "r/d", "r/z">>
      [] p = "r/d" -> <<"r/d/f">>
      [] OTHER     -> <<>>

Workers == 1 .. 2 * NumWorkers
SmallWorkers == 1 .. NumWorkers
LargeWorkers == (NumWorkers + 1) .. (2 * NumWorkers)

\* error values: what failed, and on which path
Err(op, p) == [op |-> op, path |-> p]
nil == Err("nil", "")
ctxErr == Err("ctx", "")

NoFile == [content |-> <<>>, pad |-> 0, denied |-> FALSE]
NoCall == [path |-> "", in |-> [pad |-> 0, lines |-> <<>>], b |-> NoFile, out |-> NoFile,
           tmp |-> FALSE, ret |-> nil, quit |-> FALSE, load |-> <<>>]

VARIABLES
    search, replace,   \* os.Args[1], os.Args[2]
    kind,              \* path -> "dir" | "file" | "bad" (lstat or ReadDir fails) | "none"
    fs,                \* file path -> the file
    cancelled,         \* ctx.Done() is closed
    smallFiles,        \* the channels: [buf, closed]; closed counts the close calls
    largeFiles,
    errs,              \* main's errs slice
    stack,             \* the walker: the walkDir frames, innermost last
    wpc,               \* the walker's position
    werr,              \* walk's local err
    walkRet,           \* what the walker goroutine printed: <<>> or <<err>>
    mpc,               \* main's position
    spawned,           \* workers started so far
    wg,                \* the WaitGroup counter
    printed,           \* the errors the report loop printed
    pc,                \* worker -> position
    call,              \* worker -> the locals of its loop and of the rewrite it runs
    hist               \* history, read by the properties only

vars == <<search, replace, kind, fs, cancelled, smallFiles, largeFiles, errs, stack,
          wpc, werr, walkRet, mpc, spawned, wg, printed, pc, call, hist>>

\* info.Size() - maxFileSize
SizeOver(f) == (f.pad - GiB - GiB) + Len(f.content)

\* the callback invocations of filepath.Walk(p, fn) while fn returns nil:
\* the entry itself, then, for a directory that could be read, its entries
RECURSIVE WalkSeq(_)
WalkSeq(p) ==
    IF kind[p] = "none" THEN <<>>
    ELSE IF kind[p] = "bad" THEN << [path |-> p, err |-> TRUE] >>
    ELSE IF kind[p] = "file" THEN << [path |-> p, err |-> FALSE] >>
    ELSE << [path |-> p, err |-> FALSE] >>
         \o Flatten([i \in 1 .. Len(Children(p)) |-> WalkSeq(Children(p)[i])])

Chan == [buf |-> <<>>, closed |-> 0]
Running == mpc # "exited"

\* hist: enq, the sends in order, each with the queue and the info.Size() - maxFileSize
\* the walker saw (seen: that of the entry in hand); walkErrs, the errors the walker
\* appended; sendAfterClose, a send on a closed channel; appends, the appends the workers
\* completed; orig, the files at the start; observed, the walker saw ctx done; claims and
\* runs, per worker the items taken and the rewrites begun; expired, ctx was done when
\* the rewriter under test was called
NoHist == [enq |-> <<>>, seen |-> 0, walkErrs |-> <<>>, sendAfterClose |-> FALSE,
           appends |-> <<>>, orig |-> [p \in FilePaths |-> NoFile], observed |-> FALSE,
           claims |-> [w \in Workers |-> 0], runs |-> [w \in Workers |-> 0],
           expired |-> FALSE, before |-> NoFile, calls |-> 0, fault |-> "none"]

-----------------------------------------------------------------------------
(* The walker: walk and walkDir.  A frame is one call of walkDir: its      *)
(* initialPath, the callback invocations filepath.Walk still has to make,  *)
(* and its own copy of the errs slice header (a slice is passed by value;  *)
(* main's errs has length and capacity 0, so every append in a frame       *)
(* allocates and is seen by that frame alone).                             *)

Frame(p, e) == [initial |-> p, todo |-> WalkSeq(p), errs |-> e]

Top == stack[Len(stack)]
Pop(st) == SubSeq(st, 1, Len(st) - 1)
SetTop(st, f) == [st EXCEPT ![Len(st)] = f]
Next1(f) == [f EXCEPT !.todo = Tail(@)]

Walking == Running /\ wpc = "walk" /\ stack # <<>>

\* faulty variant: every return of walkDir is followed by the two closes
ClosesOnEveryReturn(st) == TRUE

\* walk closes the channels when its own call of walkDir has returned
ClosesOnReturn(st) == Len(st) = 1

\* the queue a regular file of this size is sent to
Route(f) == IF SizeOver(f) > 0 THEN "large" ELSE "small"

\* faulty variant: the callback returns the entry's error, which ends the Walk
EntryErrAborts(e) == e

\* what the callback returns for an entry filepath.Walk reports an error for
EntryErrResult(e) == nil

\* walkDir returns err: to walk (the outermost frame) or to the callback that called it,
\* which records a non-nil err and returns nil, so that the outer Walk goes on
ReturnFrom(st, err, h) ==
    LET rest == Pop(st) IN
    /\ stack' = IF rest = <<>> \/ err = nil THEN rest
                ELSE SetTop(rest, [rest[Len(rest)] EXCEPT !.errs = Append(@, err)])
    /\ werr' = IF rest = <<>> THEN err ELSE werr
    /\ wpc' = IF ClosesOnReturn(st) THEN "closeLarge" ELSE "walk"
    /\ hist' = [h EXCEPT !.walkErrs = IF rest # <<>> /\ err # nil THEN Append(@, err) ELSE @]

\* filepath.Walk has no entry left: it returns nil
WalkDone ==
    /\ Walking /\ Top.todo = <<>>
    /\ ReturnFrom(stack, nil, hist)
    /\ UNCHANGED <<search, replace, kind, fs, cancelled, smallFiles, largeFiles, errs,
                   walkRet, mpc, spawned, wg, printed, pc, call>>

\* the callback finds ctx done and returns ctx.Err(), which ends this Walk
WalkCancelled ==
    /\ Walking /\ Top.todo # <<>>
    /\ cancelled
    /\ ReturnFrom(stack, ctxErr, [hist EXCEPT !.observed = TRUE])
    /\ UNCHANGED <<search, replace, kind, fs, cancelled, smallFiles, largeFiles, errs,
                   walkRet, mpc, spawned, wg, printed, pc, call>>

\* path == initialPath: return nil
WalkInitial ==
    /\ Walking /\ Top.todo # <<>>
    /\ ~cancelled
    /\ Head(Top.todo).path = Top.initial
    /\ stack' = SetTop(stack, Next1(Top))
    /\ UNCHANGED <<search, replace, kind, fs, cancelled, smallFiles, largeFiles, errs,
                   wpc, werr, walkRet, mpc, spawned, wg, printed, pc, call, hist>>

\* err != nil: errs = append(errs, err); return nil
WalkEntryErr ==
    /\ Walking /\ Top.todo # <<>>
    /\ ~cancelled
    /\ Head(Top.todo).path # Top.initial
    /\ Head(Top.todo).err
    /\ LET e == Err("lstat", Head(Top.todo).path)
           st == SetTop(stack, [Next1(Top) EXCEPT !.errs = Append(@, e)])
           h == [hist EXCEPT !.walkErrs = Append(@, e)]
       IN  IF EntryErrResult(e) = nil
           THEN stack' = st /\ hist' = h /\ UNCHANGED <<wpc, werr>>
           ELSE ReturnFrom(st, EntryErrResult(e), h)
    /\ UNCHANGED <<search, replace, kind, fs, cancelled, smallFiles, largeFiles, errs,
                   walkRet, mpc, spawned, wg, printed, pc, call>>

\* info.IsDir(): walkDir(ctx, path, ...), and the outer Walk descends into it afterwards
WalkSubdir ==
    /\ Walking /\ Top.todo # <<>>
    /\ ~cancelled
    /\ Head(Top.todo).path # Top.initial
    /\ ~Head(Top.todo).err
    /\ kind[Head(Top.todo).path] = "dir"
    /\ stack' = Append(SetTop(stack, Next1(Top)), Frame(Head(Top.todo).path, Top.errs))
    /\ UNCHANGED <<search, replace, kind, fs, cancelled, smallFiles, largeFiles, errs,
                   wpc, werr, walkRet, mpc, spawned, wg, printed, pc, call, hist>>

\* a regular file: info.Size() decides the channel
WalkFile ==
    /\ Walking /\ Top.todo # <<>>
    /\ ~cancelled
    /\ Head(Top.todo).path # Top.initial
    /\ ~Head(Top.todo).err
    /\ kind[Head(Top.todo).path] = "file"
    /\ wpc' = IF Route(fs[Head(Top.todo).path]) = "large" THEN "sendLarge" ELSE "sendSmall"
    /\ hist' = [hist EXCEPT !.seen = SizeOver(fs[Head(Top.todo).path])]
    /\ UNCHANGED <<search, replace, kind, fs, cancelled, smallFiles, largeFiles, errs,
                   stack, werr, walkRet, mpc, spawned, wg, printed, pc, call>>

Sent(ch, p) == [ch EXCEPT !.buf = Append(@, p)]
Logged(q, ch, p) ==
    [hist EXCEPT !.enq = Append(@, [path |-> p, q |-> q, over |-> hist.seen]),
                 !.sendAfterClose = @ \/ ch.closed > 0]

\* largeFiles <- path, which blocks while the buffer is full
WalkSendLarge ==
    /\ Running /\ wpc = "sendLarge"
    /\ Len(largeFiles.buf) < NumWorkers
    /\ largeFiles' = Sent(largeFiles, Head(Top.todo).path)
    /\ hist' = Logged("large", largeFiles, Head(Top.todo).path)
    /\ stack' = SetTop(stack, Next1(Top))
    /\ wpc' = "walk"
    /\ UNCHANGED <<search, replace, kind, fs, cancelled, smallFiles, errs,
                   werr, walkRet, mpc, spawned, wg, printed, pc, call>>

\* smallFiles <- path
WalkSendSmall ==
    /\ Running /\ wpc = "sendSmall"
    /\ Len(smallFiles.buf) < NumWorkers
    /\ smallFiles' = Sent(smallFiles, Head(Top.todo).path)
    /\ hist' = Logged("small", smallFiles, Head(Top.todo).path)
    /\ stack' = SetTop(stack, Next1(Top))
    /\ wpc' = "walk"
    /\ UNCHANGED <<search, replace, kind, fs, cancelled, largeFiles, errs,
                   werr, walkRet, mpc, spawned, wg, printed, pc, call>>

\* close(largeFiles)
WalkCloseLarge ==
    /\ Running /\ wpc = "closeLarge"
    /\ largeFiles' = [largeFiles EXCEPT !.closed = @ + 1]
    /\ wpc' = "closeSmall"
    /\ UNCHANGED <<search, replace, kind, fs, cancelled, smallFiles, errs, stack,
                   werr, walkRet, mpc, spawned, wg, printed, pc, call, hist>>

\* close(smallFiles)
WalkCloseSmall ==
    /\ Running /\ wpc = "closeSmall"
    /\ smallFiles' = [smallFiles EXCEPT !.closed = @ + 1]
    /\ wpc' = IF stack = <<>> THEN "return" ELSE "walk"
    /\ UNCHANGED <<search, replace, kind, fs, cancelled, largeFiles, errs, stack,
                   werr, walkRet, mpc, spawned, wg, printed, pc, call, hist>>

\* return err; the goroutine main started prints a non-nil err, unless main's
\* os.Exit comes first
WalkReturn ==
    /\ Running /\ wpc = "return"
    /\ wpc' = "done"
    /\ walkRet' = IF werr # nil THEN <<werr>> ELSE walkRet
    /\ UNCHANGED <<search, replace, kind, fs, cancelled, smallFiles, largeFiles, errs,
                   stack, werr, mpc, spawned, wg, printed, pc, call, hist>>

Walker ==
    \/ WalkDone \/ WalkCancelled \/ WalkInitial \/ WalkEntryErr \/ WalkSubdir
    \/ WalkFile \/ WalkSendLarge \/ WalkSendSmall \/ WalkCloseLarge \/ WalkCloseSmall
    \/ WalkReturn

-----------------------------------------------------------------------------
(* The workers.                                                            *)

Live(w) == Running /\ w \in Workers

\* for path := range ch: the next item of a channel
Claim(w, ch) ==
    /\ ch.buf # <<>>
    /\ call' = [call EXCEPT ![w] = [NoCall EXCEPT !.path = Head(ch.buf)]]
    /\ pc' = [pc EXCEPT ![w] = "check"]
    /\ hist' = [hist EXCEPT !.claims[w] = @ + 1]

\* the channel is closed and drained: the loop ends, and the deferred wg.Done() runs
Drained(w, ch) ==
    /\ ch.buf = <<>> /\ ch.closed > 0
    /\ pc' = [pc EXCEPT ![w] = "done"]
    /\ wg' = wg - 1

SmallRecv(w) ==
    /\ Live(w) /\ w \in SmallWorkers /\ pc[w] = "recv"
    /\ Claim(w, smallFiles)
    /\ smallFiles' = [smallFiles EXCEPT !.buf = Tail(@)]
    /\ UNCHANGED <<search, replace, kind, fs, cancelled, largeFiles, errs, stack,
                   wpc, werr, walkRet, mpc, spawned, wg, printed>>

LargeRecv(w) ==
    /\ Live(w) /\ w \in LargeWorkers /\ pc[w] = "recv"
    /\ Claim(w, largeFiles)
    /\ largeFiles' = [largeFiles EXCEPT !.buf = Tail(@)]
    /\ UNCHANGED <<search, replace, kind, fs, cancelled, smallFiles, errs, stack,
                   wpc, werr, walkRet, mpc, spawned, wg, printed>>

WorkerExit(w) ==
    /\ Live(w) /\ pc[w] = "recv"
    /\ Drained(w, IF w \in SmallWorkers THEN smallFiles ELSE largeFiles)
    /\ UNCHANGED <<search, replace, kind, fs, cancelled, smallFiles, largeFiles, errs,
                   stack, wpc, werr, walkRet, mpc, spawned, printed, call, hist>>

\* select { case <-ctx.Done(): errs = append(errs, ctx.Err()); return; default: }
\* and then the call of the rewriter
WorkerCheck(w) ==
    /\ Live(w) /\ pc[w] = "check"
    /\ IF cancelled
       THEN /\ call' = [call EXCEPT ![w].ret = ctxErr, ![w].quit = TRUE]
            /\ pc' = [pc EXCEPT ![w] = "append"]
            /\ hist' = hist
       ELSE /\ call' = call
            /\ pc' = [pc EXCEPT ![w] = IF w \in SmallWorkers THEN "read" ELSE "open"]
            /\ hist' = [hist EXCEPT !.runs[w] = @ + 1]
    /\ UNCHANGED <<search, replace, kind, fs, cancelled, smallFiles, largeFiles, errs,
                   stack, wpc, werr, walkRet, mpc, spawned, wg, printed>>

\* where the worker goes when the rewriter has returned err
Returned(err) == IF err = nil THEN "recv" ELSE "append"

\* errs = append(errs, err), unsynchronised: the slice header is read ...
WorkerAppend(w) ==
    /\ Live(w) /\ pc[w] = "append"
    /\ call' = [call EXCEPT ![w].load = errs]
    /\ pc' = [pc EXCEPT ![w] = "store"]
    /\ UNCHANGED <<search, replace, kind, fs, cancelled, smallFiles, largeFiles, errs,
                   stack, wpc, werr, walkRet, mpc, spawned, wg, printed, hist>>

\* faulty variant: the worker goes on to the next item after a cancellation too
AfterAppendContinue(quit) == "recv"

\* where the worker goes after the append: return after a cancellation, else the next item
AfterAppend(quit) == IF quit THEN "done" ELSE "recv"

\* ... and the header of the longer slice is written back
WorkerStore(w) ==
    /\ Live(w) /\ pc[w] = "store"
    /\ errs' = Append(call[w].load, call[w].ret)
    /\ hist' = [hist EXCEPT !.appends = Append(@, [w |-> w, err |-> call[w].ret,
                                                    quit |-> call[w].quit])]
    /\ pc' = [pc EXCEPT ![w] = AfterAppend(call[w].quit)]
    /\ wg' = IF AfterAppend(call[w].quit) = "done" THEN wg - 1 ELSE wg
    /\ UNCHANGED <<search, replace, kind, fs, cancelled, smallFiles, largeFiles,
                   stack, wpc, werr, walkRet, mpc, spawned, printed, call>>

-----------------------------------------------------------------------------
(* replaceInFile                                                           *)

\* os.OpenFile and io.ReadAll
SmallRead(w) ==
    /\ Live(w) /\ pc[w] = "read"
    /\ IF fs[call[w].path].denied
       THEN /\ call' = [call EXCEPT ![w].ret = Err("open", call[w].path)]
            /\ pc' = [pc EXCEPT ![w] = Returned(Err("open", call[w].path))]
       ELSE /\ call' = [call EXCEPT ![w].b = fs[call[w].path]]
            /\ pc' = [pc EXCEPT ![w] = "trunc"]
    /\ UNCHANGED <<search, replace, kind, fs, cancelled, smallFiles, largeFiles, errs,
                   stack, wpc, werr, walkRet, mpc, spawned, wg, printed, hist>>

\* faulty variant: the path is opened without O_TRUNC
NotTruncated(f) == f

\* what opening with O_TRUNC leaves of the file
Truncated(f) == [f EXCEPT !.content = <<>>, !.pad = 0]

\* the file after the bytes of out are written at offset 0 of cur: the bytes of cur
\* past the end of out stay where they are (cur is either out's own padding followed
\* by some content, or shorter than that padding)
WrittenOver(cur, out) ==
    [cur EXCEPT !.content =
                    IF cur.pad = out.pad
                    THEN out.content \o SubSeq(cur.content, Len(out.content) + 1,
                                               Len(cur.content))
                    ELSE out.content,
                !.pad = out.pad]

\* os.WriteFile opens the path with O_TRUNC ...
SmallTrunc(w) ==
    /\ Live(w) /\ pc[w] = "trunc"
    /\ fs' = [fs EXCEPT ![call[w].path] = Truncated(@)]
    /\ pc' = [pc EXCEPT ![w] = "write"]
    /\ UNCHANGED <<search, replace, kind, cancelled, smallFiles, largeFiles, errs,
                   stack, wpc, werr, walkRet, mpc, spawned, wg, printed, call, hist>>

\* ... and writes strings.ReplaceAll(string(b), search, replace)
SmallWrite(w) ==
    /\ Live(w) /\ pc[w] = "write"
    /\ fs' = [fs EXCEPT ![call[w].path] =
                WrittenOver(@, [call[w].b EXCEPT
                                  !.content = ReplaceAll(call[w].b.content, search,
                                                         replace)])]
    /\ call' = [call EXCEPT ![w].ret = nil]
    /\ pc' = [pc EXCEPT ![w] = Returned(nil)]
    /\ UNCHANGED <<search, replace, kind, cancelled, smallFiles, largeFiles, errs,
                   stack, wpc, werr, walkRet, mpc, spawned, wg, printed, hist>>

-----------------------------------------------------------------------------
(* replaceInLargeFile                                                      *)

\* os.Open, os.CreateTemp, defer os.Remove(tempFile.Name()), the writer and the scanner
LargeOpen(w) ==
    /\ Live(w) /\ pc[w] = "open"
    /\ IF fs[call[w].path].denied
       THEN /\ call' = [call EXCEPT ![w].ret = Err("open", call[w].path)]
            /\ pc' = [pc EXCEPT ![w] = Returned(Err("open", call[w].path))]
       ELSE /\ call' = [call EXCEPT
                           ![w].in = [pad |-> fs[call[w].path].pad,
                                      lines |-> ScanLines(fs[call[w].path].content)],
                           ![w].out = NoFile,
                           ![w].tmp = TRUE]
            /\ pc' = [pc EXCEPT ![w] = "scan"]
    /\ UNCHANGED <<search, replace, kind, fs, cancelled, smallFiles, largeFiles, errs,
                   stack, wpc, werr, walkRet, mpc, spawned, wg, printed, hist>>

\* faulty variant: no deferred Remove
NotRemoved(tmp) == tmp

\* defer os.Remove(tempFile.Name()): whether the temp file exists after a return
\* that did not rename it
Removed(tmp) == FALSE

\* scanner.Scan() has a line to give
MoreLines(in) == in.pad > 0 \/ in.lines # <<>>

\* faulty variant: the loop body does not look at ctx
NoLineCheck(done) == FALSE

\* the select at the head of the loop body: whether it takes the ctx.Done() case
LineCheck(done) == done

\* the loop body finds ctx done: return ctx.Err(); the deferred Remove deletes the temp file
LargeCancelled(w) ==
    /\ Live(w) /\ pc[w] = "scan"
    /\ MoreLines(call[w].in)
    /\ LineCheck(cancelled)
    /\ call' = [call EXCEPT ![w].ret = ctxErr, ![w].tmp = Removed(@)]
    /\ pc' = [pc EXCEPT ![w] = Returned(ctxErr)]
    /\ UNCHANGED <<search, replace, kind, fs, cancelled, smallFiles, largeFiles, errs,
                   stack, wpc, werr, walkRet, mpc, spawned, wg, printed, hist>>

\* writer.WriteString(strings.ReplaceAll(line, search, replace) + "\n");
\* the lines of the padding, in none of which the search, never empty where there is
\* padding, occurs, are copied in one step: a ctx found done before a later one of
\* them returns as LargeCancelled does before the first
LargeLine(w) ==
    /\ Live(w) /\ pc[w] = "scan"
    /\ MoreLines(call[w].in)
    /\ ~LineCheck(cancelled)
    /\ call' = IF call[w].in.pad > 0
               THEN [call EXCEPT ![w].out.pad = call[w].in.pad, ![w].in.pad = 0]
               ELSE [call EXCEPT
                        ![w].out.content =
                            @ \o ReplaceAll(Head(call[w].in.lines), search, replace) \o <<NL>>,
                        ![w].in.lines = Tail(@)]
    /\ UNCHANGED <<search, replace, kind, fs, cancelled, smallFiles, largeFiles, errs,
                   stack, wpc, werr, walkRet, mpc, spawned, wg, printed, pc, hist>>

\* scanner.Scan() returns false: Flush, Close, and os.Rename(tempFile.Name(), path)
LargeRename(w) ==
    /\ Live(w) /\ pc[w] = "scan"
    /\ ~MoreLines(call[w].in)
    /\ fs' = [fs EXCEPT ![call[w].path] = call[w].out]
    /\ call' = [call EXCEPT ![w].ret = nil, ![w].tmp = FALSE]
    /\ pc' = [pc EXCEPT ![w] = Returned(nil)]
    /\ UNCHANGED <<search, replace, kind, cancelled, smallFiles, largeFiles, errs,
                   stack, wpc, werr, walkRet, mpc, spawned, wg, printed, hist>>

-----------------------------------------------------------------------------
(* replaceInLargeFile when a step of its I/O fails                         *)

\* bufio.NewWriter gives the writer a buffer of bufio's default size
bufSize == 4096

\* by how many bytes what the writer has accepted, and n bytes more, exceed the
\* buffer (a difference, as in SizeOver)
Beyond(out, n) == (out.pad - bufSize) + Len(out.content) + n

\* WriteString(line) can come to write to the temp file, and so to fail, only when
\* line does not fit into the buffer with what the writer has accepted before
Spills(out, line) == Beyond(out, Len(line)) > 0

\* how many of the last bytes it accepted the writer may still hold, and so fail to
\* write, at the final Flush: any number from 1 up to all of an output that never
\* left the buffer; of a longer output, whose buffered part depends on the lengths
\* of the lines written, any number from 1 up to the size of the buffer
Lost(out) ==
    1 .. (IF Beyond(out, 0) >= 0 THEN bufSize ELSE Beyond(out, 0) + bufSize)

\* what the temp file holds when the final Flush fails to write the last k bytes
Reached(out, k) ==
    IF k <= Len(out.content)
    THEN [out EXCEPT !.content = SubSeq(@, 1, Len(@) - k)]
    ELSE [out EXCEPT !.content = <<>>, !.pad = @ - (k - Len(out.content))]

\* os.CreateTemp fails: return err, before any temp file exists
LargeTempErr(w) ==
    /\ Live(w) /\ pc[w] = "open"
    /\ ~fs[call[w].path].denied
    /\ call' = [call EXCEPT ![w].ret = Err("createtemp", call[w].path)]
    /\ pc' = [pc EXCEPT ![w] = Returned(Err("createtemp", call[w].path))]
    /\ hist' = [hist EXCEPT !.fault = "createtemp"]
    /\ UNCHANGED <<search, replace, kind, fs, cancelled, smallFiles, largeFiles, errs,
                   stack, wpc, werr, walkRet, mpc, spawned, wg, printed>>

\* scanner.Scan() returns false because reading failed (or a line is too long):
\* scanner.Err() is returned; the deferred Remove deletes the temp file
LargeScanErr(w) ==
    /\ Live(w) /\ pc[w] = "scan"
    /\ call' = [call EXCEPT ![w].ret = Err("read", call[w].path), ![w].tmp = Removed(@)]
    /\ pc' = [pc EXCEPT ![w] = Returned(Err("read", call[w].path))]
    /\ hist' = [hist EXCEPT !.fault = "scan"]
    /\ UNCHANGED <<search, replace, kind, fs, cancelled, smallFiles, largeFiles, errs,
                   stack, wpc, werr, walkRet, mpc, spawned, wg, printed>>

\* writer.WriteString returns an error: return err; the deferred Remove deletes the
\* temp file
LargeWriteErr(w) ==
    /\ Live(w) /\ pc[w] = "scan"
    /\ MoreLines(call[w].in)
    /\ ~LineCheck(cancelled)
    /\ \/ call[w].in.pad > bufSize
       \/ /\ call[w].in.pad = 0
          /\ Spills(call[w].out,
                    ReplaceAll(Head(call[w].in.lines), search, replace) \o <<NL>>)
    /\ call' = [call EXCEPT ![w].ret = Err("write", call[w].path), ![w].tmp = Removed(@)]
    /\ pc' = [pc EXCEPT ![w] = Returned(Err("write", call[w].path))]
    /\ hist' = [hist EXCEPT !.fault = "write"]
    /\ UNCHANGED <<search, replace, kind, fs, cancelled, smallFiles, largeFiles, errs,
                   stack, wpc, werr, walkRet, mpc, spawned, wg, printed>>

\* scanner.Scan() returns false at the end of the input, and writer.Flush(), which has
\* bytes to write, fails having written none or only some of them; its result is
\* dropped: Close, and os.Rename puts what reached the temp file in the place of the
\* original
LargeFlushErr(w) ==
    /\ Live(w) /\ pc[w] = "scan"
    /\ ~MoreLines(call[w].in)
    /\ \E k \in Lost(call[w].out) :
           fs' = [fs EXCEPT ![call[w].path] = Reached(call[w].out, k)]
    /\ call' = [call EXCEPT ![w].ret = nil, ![w].tmp = FALSE]
    /\ pc' = [pc EXCEPT ![w] = Returned(nil)]
    /\ hist' = [hist EXCEPT !.fault = "flush"]
    /\ UNCHANGED <<search, replace, kind, cancelled, smallFiles, largeFiles, errs,
                   stack, wpc, werr, walkRet, mpc, spawned, wg, printed>>

\* os.Rename fails (the temp file is in os.TempDir(), which may be another volume):
\* its error is returned; the deferred Remove deletes the temp file
LargeRenameErr(w) ==
    /\ Live(w) /\ pc[w] = "scan"
    /\ ~MoreLines(call[w].in)
    /\ call' = [call EXCEPT ![w].ret = Err("rename", call[w].path), ![w].tmp = Removed(@)]
    /\ pc' = [pc EXCEPT ![w] = Returned(Err("rename", call[w].path))]
    /\ hist' = [hist EXCEPT !.fault = "rename"]
    /\ UNCHANGED <<search, replace, kind, fs, cancelled, smallFiles, largeFiles, errs,
                   stack, wpc, werr, walkRet, mpc, spawned, wg, printed>>

-----------------------------------------------------------------------------
(* main                                                                    *)

\* go func() { err := walk(ctx, rootPath, largeFiles, smallFiles, errs) ... }()
MainGoWalk ==
    /\ mpc = "start"
    /\ mpc' = "spawn"
    /\ wpc' = "walk"
    /\ stack' = <<Frame(Root, errs)>>
    /\ UNCHANGED <<search, replace, kind, fs, cancelled, smallFiles, largeFiles, errs,
                   werr, walkRet, spawned, wg, printed, pc, call, hist>>

\* wg.Add(1); go func() { defer wg.Done(); ... }(): the small pool first, then the large
MainSpawn ==
    /\ mpc = "spawn"
    /\ spawned < 2 * NumWorkers
    /\ spawned' = spawned + 1
    /\ wg' = wg + 1
    /\ pc' = [pc EXCEPT ![spawned + 1] = "recv"]
    /\ UNCHANGED <<search, replace, kind, fs, cancelled, smallFiles, largeFiles, errs,
                   stack, wpc, werr, walkRet, mpc, printed, call, hist>>

\* faulty variant: main does not wait
WaitReturnsAtOnce(n) == TRUE

\* wg.Wait() returns when the counter is zero
WaitReturns(n) == n = 0

MainWait ==
    /\ mpc = "spawn"
    /\ spawned = 2 * NumWorkers
    /\ WaitReturns(wg)
    /\ mpc' = "report"
    /\ UNCHANGED <<search, replace, kind, fs, cancelled, smallFiles, largeFiles, errs,
                   stack, wpc, werr, walkRet, spawned, wg, printed, pc, call, hist>>

\* for _, err := range errs { fmt.Println(err) }
MainPrint ==
    /\ mpc = "report"
    /\ Len(printed) < Len(errs)
    /\ printed' = Append(printed, errs[Len(printed) + 1])
    /\ UNCHANGED <<search, replace, kind, fs, cancelled, smallFiles, largeFiles, errs,
                   stack, wpc, werr, walkRet, mpc, spawned, wg, pc, call, hist>>

\* os.Exit(0)
MainExit ==
    /\ mpc = "report"
    /\ Len(printed) = Len(errs)
    /\ mpc' = "exited"
    /\ UNCHANGED <<search, replace, kind, fs, cancelled, smallFiles, largeFiles, errs,
                   stack, wpc, werr, walkRet, spawned, wg, printed, pc, call, hist>>

\* the timeout expires or the process is interrupted
Cancel ==
    /\ Running /\ ~cancelled
    /\ cancelled' = TRUE
    /\ UNCHANGED <<search, replace, kind, fs, smallFiles, largeFiles, errs, stack,
                   wpc, werr, walkRet, mpc, spawned, wg, printed, pc, call, hist>>

-----------------------------------------------------------------------------
(* The run of the program on a tree.                                       *)

Small(c) == [content |-> c, pad |-> 0, denied |-> FALSE]
\* maxFileSize - 1 bytes of padding: the file exceeds maxFileSize when content has two bytes
Edge(c) == [content |-> c, pad |-> GiB - 1 + GiB, denied |-> FALSE]
Denied(f) == [f EXCEPT !.denied = TRUE]

Args == { <<<<"a">>, <<"a", "a">>>>, <<<<"a">>, <<"b">>>> }

TreeFiles ==
    { [a |-> Small(<<"a">>), f |-> Small(<<"a">>)],
      [a |-> Small(<<"a">>), f |-> Edge(<<"a">>)],
      [a |-> Edge(<<"a", "a">>), f |-> Small(<<"a">>)],
      [a |-> Denied(Small(<<"a">>)), f |-> Edge(<<"a", NL, "a">>)],
      [a |-> Small(<<"b", "a">>), f |-> Denied(Edge(<<"a", "a">>))] }

TreeKinds ==
    { [d |-> "dir", z |-> "none"],
      [d |-> "dir", z |-> "dir"],
      [d |-> "bad", z |-> "file"] }

Init ==
    /\ \E a \in Args : search = a[1] /\ replace = a[2]
    /\ \E k \in TreeKinds :
           kind = [p \in Paths |-> CASE p = "r/d" -> k.d
                                     [] p = "r/z" -> k.z
                                     [] p \in {"r/a", "r/d/f"} -> "file"
                                     [] OTHER -> "dir"]
    /\ \E t \in TreeFiles :
           fs = [p \in FilePaths |-> CASE p = "r/a" -> t.a
                                       [] p = "r/d/f" -> t.f
                                       [] p = "r/z" -> Small(<<"a">>)
                                       [] OTHER -> NoFile]
    /\ cancelled = FALSE
    /\ smallFiles = Chan /\ largeFiles = Chan
    /\ errs = <<>>
    /\ stack = <<>> /\ wpc = "unborn" /\ werr = nil /\ walkRet = <<>>
    /\ mpc = "start" /\ spawned = 0 /\ wg = 0 /\ printed = <<>>
    /\ pc = [w \in Workers |-> "unborn"]
    /\ call = [w \in Workers |-> NoCall]
    /\ hist = [NoHist EXCEPT !.orig = fs]

Worker(w) ==
    \/ SmallRecv(w) \/ LargeRecv(w) \/ WorkerExit(w) \/ WorkerCheck(w)
    \/ WorkerAppend(w) \/ WorkerStore(w)
    \/ SmallRead(w) \/ SmallTrunc(w) \/ SmallWrite(w)
    \/ LargeOpen(w) \/ LargeCancelled(w) \/ LargeLine(w) \/ LargeRename(w)

Main == MainGoWalk \/ MainSpawn \/ MainWait \/ MainPrint \/ MainExit

Next == Main \/ Walker \/ Cancel \/ \E w \in Workers : Worker(w)

Spec == Init /\ [][Next]_vars

-----------------------------------------------------------------------------
(* replaceInLargeFile called on its own, as TestReplaceInLargeFile calls   *)
(* it: on a file "t", under a context that may be done already or become   *)
(* done at any moment of the call.                                         *)

MaxPat == 2

RECURSIVE StrsUpTo(_, _)
StrsUpTo(A, n) ==
    IF n = 0 THEN {<<>>}
    ELSE LET shorter == StrsUpTo(A, n - 1) IN
         shorter \cup {Append(x, c) : x \in {y \in shorter : Len(y) = n - 1}, c \in A}

Tester == NumWorkers + 1
TestPath == "t"

InitLarge ==
    /\ search \in StrsUpTo({"a", "b"}, MaxPat)
    /\ replace \in {<<>>, <<"b">>, <<"a", "a">>, <<NL>>}
    /\ kind = [p \in Paths |-> "none"]
    /\ \E c \in StrsUpTo({"a", "b", NL, CR}, MaxLen) :
           fs = [p \in FilePaths |-> IF p = TestPath THEN Small(c) ELSE NoFile]
    /\ cancelled \in BOOLEAN
    /\ smallFiles = Chan /\ largeFiles = Chan
    /\ errs = <<>>
    /\ stack = <<>> /\ wpc = "unborn" /\ werr = nil /\ walkRet = <<>>
    /\ mpc = "test" /\ spawned = 0 /\ wg = 0 /\ printed = <<>>
    /\ pc = [w \in Workers |-> IF w = Tester THEN "open" ELSE "unborn"]
    /\ call = [w \in Workers |-> IF w = Tester THEN [NoCall EXCEPT !.path = TestPath]
                                 ELSE NoCall]
    /\ hist = [NoHist EXCEPT !.orig = fs, !.expired = cancelled]

NextLarge ==
    \/ LargeOpen(Tester) \/ LargeCancelled(Tester) \/ LargeLine(Tester)
    \/ LargeRename(Tester) \/ Cancel

SpecLarge == InitLarge /\ [][NextLarge]_vars

\* the call under test has returned, with call[Tester].ret
TestReturned == pc[Tester] \in {"recv", "append"}

-----------------------------------------------------------------------------
(* Either rewriter called on its own on the file "t" with no cancellation  *)
(* and no I/O failure, as TestReplaceInFile and TestReplaceInLargeFile     *)
(* call them, and called a second time on what the first call left.        *)

SmallTester == NumWorkers

InitCall ==
    /\ search \in StrsUpTo({"a", "b"}, MaxPat)
    /\ replace \in {<<>>, <<"b">>, <<"a", "a">>, <<NL>>}
    /\ kind = [p \in Paths |-> "none"]
    /\ \E c \in StrsUpTo({"a", "b", NL, CR}, MaxLen) :
           fs = [p \in FilePaths |-> IF p = TestPath THEN Small(c) ELSE NoFile]
    /\ cancelled = FALSE
    /\ smallFiles = Chan /\ largeFiles = Chan
    /\ errs = <<>>
    /\ stack = <<>> /\ wpc = "unborn" /\ werr = nil /\ walkRet = <<>>
    /\ mpc = "test" /\ spawned = 0 /\ wg = 0 /\ printed = <<>>
    /\ \E t \in {SmallTester, Tester} :
           /\ pc = [w \in Workers |-> IF w # t THEN "unborn"
                                      ELSE IF t = Tester THEN "open" ELSE "read"]
           /\ call = [w \in Workers |-> IF w = t THEN [NoCall EXCEPT !.path = TestPath]
                                        ELSE NoCall]
    /\ hist = [NoHist EXCEPT !.orig = fs, !.before = fs[TestPath], !.calls = 1]

\* the first call returned nil: the same rewriter is called again on the same path
CallAgain(w) ==
    /\ pc[w] = "recv" /\ call[w].path = TestPath /\ call[w].ret = nil
    /\ hist.calls = 1
    /\ pc' = [pc EXCEPT ![w] = IF w = Tester THEN "open" ELSE "read"]
    /\ call' = [call EXCEPT ![w] = [NoCall EXCEPT !.path = TestPath]]
    /\ hist' = [hist EXCEPT !.calls = 2, !.before = fs[TestPath]]
    /\ UNCHANGED <<search, replace, kind, fs, cancelled, smallFiles, largeFiles, errs,
                   stack, wpc, werr, walkRet, mpc, spawned, wg, printed>>

NextCall ==
    \/ SmallRead(SmallTester) \/ SmallTrunc(SmallTester) \/ SmallWrite(SmallTester)
    \/ LargeOpen(Tester) \/ LargeLine(Tester) \/ LargeRename(Tester)
    \/ CallAgain(SmallTester) \/ CallAgain(Tester)

SpecCall == InitCall /\ [][NextCall]_vars

\* a call of replaceInFile / replaceInLargeFile under test has returned nil
SmallDone == pc[SmallTester] = "recv" /\ call[SmallTester].path = TestPath
LargeDone == pc[Tester] = "recv" /\ call[Tester].path = TestPath

-----------------------------------------------------------------------------
(* replaceInLargeFile called on its own on the file "t", small or at the   *)
(* size threshold, with a context that may become done at any moment from  *)
(* before the call on, and with I/O that may fail at any step after the    *)
(* file has been opened.  The search is not empty: an empty search occurs  *)
(* in every line, those of the padding too.                                *)

InitFault ==
    /\ search \in StrsUpTo({"a"}, MaxPat) \ {<<>>}
    /\ replace \in {<<>>, <<"b">>}
    /\ kind = [p \in Paths |-> "none"]
    /\ \E c \in StrsUpTo({"a", NL}, MaxLen) :
           \E f \in {Small(c), Edge(c)} :
               fs = [p \in FilePaths |-> IF p = TestPath THEN f ELSE NoFile]
    /\ cancelled = FALSE
    /\ smallFiles = Chan /\ largeFiles = Chan
    /\ errs = <<>>
    /\ stack = <<>> /\ wpc = "unborn" /\ werr = nil /\ walkRet = <<>>
    /\ mpc = "test" /\ spawned = 0 /\ wg = 0 /\ printed = <<>>
    /\ pc = [w \in Workers |-> IF w = Tester THEN "open" ELSE "unborn"]
    /\ call = [w \in Workers |-> IF w = Tester THEN [NoCall EXCEPT !.path = TestPath]
                                 ELSE NoCall]
    /\ hist = [NoHist EXCEPT !.orig = fs, !.before = fs[TestPath], !.calls = 1]

NextFault ==
    \/ NextLarge
    \/ LargeTempErr(Tester) \/ LargeScanErr(Tester) \/ LargeWriteErr(Tester)
    \/ LargeFlushErr(Tester) \/ LargeRenameErr(Tester)

SpecFault == InitFault /\ [][NextFault]_vars

-----------------------------------------------------------------------------
(* Properties                                                              *)

Range(q) == {q[i] : i \in 1 .. Len(q)}

\* the regular files the walk of the root comes to
WalkedFiles == {e.path : e \in {x \in Range(WalkSeq(Root)) : ~x.err /\ kind[x.path] = "file"}}

\* no directory entry fails to be read and no file fails to open
NoIOFailure ==
    /\ \A p \in Paths : kind[p] # "bad"
    /\ \A p \in WalkedFiles : ~hist.orig[p].denied

\* a file with the replacement applied once to its original content
Once(f) == [f EXCEPT !.content = ReplaceAll(f.content, search, replace)]

AllWorkersDone == \A w \in Workers : pc[w] = "done"

\* C1: with no cancellation and no I/O failure, when the dispatcher has finished every
\* regular file at or below the threshold, at any depth under the root, holds exactly
\* its original content with the replacement applied once
C1_EveryFileReplacedOnce ==
    (mpc \in {"report", "exited"} /\ ~cancelled /\ NoIOFailure)
        => \A p \in WalkedFiles :
               Route(hist.orig[p]) = "small" => fs[p] = Once(hist.orig[p])

\* C2: a call of replaceInLargeFile that observes the cancellation at its per-line
\* check returns the cancellation error, leaves the file's bytes as they were before
\* the call, and leaves no temporary file behind
C2_CancelledCallLeavesFile ==
    (TestReturned /\ call[Tester].ret = ctxErr)
        => fs[TestPath] = hist.orig[TestPath] /\ ~call[Tester].tmp

\* a call cancelled in mid-stream: a line was written to the temp file before the
\* check that saw the cancellation
C2_Witness ==
    /\ TestReturned /\ call[Tester].ret = ctxErr
    /\ call[Tester].out.content # <<>> /\ call[Tester].in.lines # <<>>
    /\ ~hist.expired

\* C3 as stated: whatever the content, the empty file included, a call under a context
\* that is done already returns a cancellation error and leaves the file unchanged
C3_ExpiredAlwaysCancels ==
    (TestReturned /\ hist.expired)
        => call[Tester].ret = ctxErr /\ fs[TestPath] = hist.orig[TestPath]

\* C3, amended: a call under a context that is done already leaves the file's bytes
\* unchanged; it returns the cancellation error when the scanner yields at least one
\* line, that is for every non-empty content, and nil for the empty file, whose loop
\* body with the check never runs
C3_ExpiredCancelsNonEmpty ==
    (TestReturned /\ hist.expired)
        => /\ fs[TestPath].content = hist.orig[TestPath].content
           /\ call[Tester].ret = IF ScanLines(hist.orig[TestPath].content) = <<>>
                                 THEN nil ELSE ctxErr

C3_Witness ==
    /\ TestReturned /\ hist.expired
    /\ hist.orig[TestPath].content # <<>>
    /\ call[Tester].ret = ctxErr

\* C4: each channel is closed at most once, by walk after its own walkDir returned,
\* exactly once when the walker has finished (with or without entry errors, or by
\* cancellation), and nothing is sent on a closed channel
C4_ClosedExactlyOnce ==
    /\ smallFiles.closed <= 1 /\ largeFiles.closed <= 1
    /\ ~hist.sendAfterClose
    /\ largeFiles.closed > 0 => wpc \in {"closeSmall", "return", "done"} /\ stack = <<>>
    /\ smallFiles.closed > 0 => wpc \in {"return", "done"}
    /\ wpc = "done" => smallFiles.closed = 1 /\ largeFiles.closed = 1

\* the walker finished a tree with a nested subdirectory whose file it sent
C4_Witness ==
    /\ wpc = "done" /\ kind["r/d"] = "dir"
    /\ \E i \in 1 .. Len(hist.enq) : hist.enq[i].path = "r/d/f"
    /\ smallFiles.closed = 1 /\ largeFiles.closed = 1

\* C5: a file goes to the large queue iff the size the walker saw exceeds maxFileSize,
\* to the small queue otherwise, and no path is ever pushed to both queues
C5_RoutingExclusive ==
    /\ \A i \in 1 .. Len(hist.enq) : hist.enq[i].q = "large" <=> hist.enq[i].over > 0
    /\ \A i, j \in 1 .. Len(hist.enq) :
           hist.enq[i].path = hist.enq[j].path => hist.enq[i].q = hist.enq[j].q

\* C6: every append a worker performed is in the list that is printed
C6_NoErrorLost ==
    mpc = "exited"
        => /\ Len(printed) = Len(hist.appends)
           /\ \A i \in 1 .. Len(hist.appends) : hist.appends[i].err \in Range(printed)

\* C7: every traversal error the walker recorded is printed at the end of the run
C7_WalkErrorsPrinted ==
    mpc = "exited" => \A e \in Range(hist.walkErrs) : e \in Range(printed)

\* C8: an entry error does not abort the walk: when the walker has finished without
\* having seen the cancellation, every regular file the traversal comes to, those after
\* the failing entry included, has been sent
C8_WalkContinuesAfterError ==
    (wpc = "done" /\ ~hist.observed /\ hist.walkErrs # <<>>)
        => \A p \in WalkedFiles : \E i \in 1 .. Len(hist.enq) : hist.enq[i].path = p

\* the entry r/d failed and its later sibling r/z was sent
C8_Witness ==
    /\ wpc = "done" /\ ~hist.observed
    /\ Err("lstat", "r/d") \in Range(hist.walkErrs)
    /\ \E i \in 1 .. Len(hist.enq) : hist.enq[i].path = "r/z"

\* the appends worker w made on seeing ctx done at its check
QuitAppends(w) == {i \in 1 .. Len(hist.appends) : hist.appends[i].w = w /\ hist.appends[i].quit}

\* C9: a worker whose check after claiming an item saw ctx done does not rewrite that
\* item, appends the cancellation error exactly once and exits without another item;
\* every other item it claimed it passed on to the rewriter
C9_CancelledWorkerStops ==
    \A w \in Workers :
        /\ call[w].quit
              => /\ pc[w] \in {"append", "store", "done"}
                 /\ call[w].ret = ctxErr
                 /\ hist.runs[w] = hist.claims[w] - 1
                 /\ Cardinality(QuitAppends(w)) = IF pc[w] = "done" THEN 1 ELSE 0
        /\ ~call[w].quit
              => /\ QuitAppends(w) = {}
                 /\ hist.runs[w] = IF pc[w] = "check" THEN hist.claims[w] - 1
                                   ELSE hist.claims[w]

\* a worker that had rewritten one file saw ctx done on its next item and has exited
C9_Witness ==
    \E w \in Workers :
        /\ call[w].quit /\ pc[w] = "done"
        /\ hist.claims[w] = 2 /\ hist.runs[w] = 1

\* C10: the report loop runs only when every worker of both pools has terminated
C10_ReportAfterWorkers ==
    (mpc \in {"report", "exited"} \/ printed # <<>>) => AllWorkersDone

\* an error is being printed
C10_Witness ==
    mpc = "report" /\ printed # <<>> /\ Len(printed) < Len(errs)

\* strings.Index: where old first occurs in s, 0 when it does not
Index(s, old) ==
    IF \E i \in 1 .. Len(s) + 1 : HasPrefixAt(s, i, old)
    THEN CHOOSE i \in 1 .. Len(s) + 1 :
             /\ HasPrefixAt(s, i, old)
             /\ \A j \in 1 .. i - 1 : ~HasPrefixAt(s, j, old)
    ELSE 0

\* s with the first occurrence of a non-empty old replaced by new, and then the
\* occurrences in what follows that occurrence
RECURSIVE Substituted(_, _, _)
Substituted(s, old, new) ==
    IF Index(s, old) = 0 THEN s
    ELSE SubSeq(s, 1, Index(s, old) - 1) \o new
             \o Substituted(SubSeq(s, Index(s, old) + Len(old), Len(s)), old, new)

\* C11: after a successful replaceInFile with a non-empty search the file holds exactly
\* the content it had before the call with every non-overlapping occurrence of search,
\* left to right, replaced by replace, and nothing after it: no byte of a longer
\* original is left behind the new content
C11_SmallFileReplaced ==
    (SmallDone /\ search # <<>>)
        => fs[TestPath] = [hist.before EXCEPT
                             !.content = Substituted(hist.before.content, search, replace)]

\* a first call whose replacement made the file shorter
C11_Witness ==
    /\ SmallDone /\ search # <<>> /\ hist.calls = 1
    /\ Index(hist.before.content, search) # 0
    /\ Len(fs[TestPath].content) < Len(hist.before.content)

\* the newline-delimited lines of s: the bytes before each NL, and the bytes after the
\* last NL when there are any
RECURSIVE NLLines(_)
NLLines(s) ==
    IF s = <<>> THEN <<>>
    ELSE IF Index(s, <<NL>>) = 0 THEN <<s>>
    ELSE <<SubSeq(s, 1, Index(s, <<NL>>) - 1)>>
             \o NLLines(SubSeq(s, Index(s, <<NL>>) + 1, Len(s)))

\* each line of ls with the replacement applied and one NL after it, in order
Rewritten(ls) ==
    Flatten([i \in 1 .. Len(ls) |-> ReplaceAll(ls[i], search, replace) \o <<NL>>])

\* C12: after a successful replaceInLargeFile the file holds, in order, each
\* newline-delimited line of the content it had before the call with the replacement
\* applied to that line and exactly one newline after it; so a last line without a
\* newline gets one, and an empty file stays empty
C12_LinesRewritten ==
    LargeDone => fs[TestPath].content = Rewritten(NLLines(hist.before.content))

\* each line of ls as it is, with one NL after it
Copied(ls) == Flatten([i \in 1 .. Len(ls) |-> ls[i] \o <<NL>>])

\* C13: with an empty search both rewriters are a no-op, no copy of replace is
\* inserted: replaceInFile leaves the content as it was, and every line
\* replaceInLargeFile writes is the line the scanner gave it
C13_EmptySearchNoOp ==
    search = <<>>
        => /\ SmallDone => fs[TestPath] = hist.before
           /\ LargeDone => fs[TestPath].content = Copied(ScanLines(hist.before.content))

\* search occurs in s (the empty string occurs in every string)
Occurs(s, old) == Index(s, old) # 0

\* s is empty or ends with NL, and no line of s ends with CR
Terminated(s) ==
    /\ s = <<>> \/ s[Len(s)] = NL
    /\ \A i \in 1 .. Len(s) - 1 : ~(s[i] = CR /\ s[i + 1] = NL)

\* C14 as stated: when search does not occur in the content, each rewriter leaves
\* the file byte for byte as it was, whether or not the content ends with a newline
C14_NoMatchSameBytes ==
    ~Occurs(hist.before.content, search)
        => ((SmallDone \/ LargeDone) => fs[TestPath] = hist.before)

\* C14 amended: when search does not occur in the content, replaceInFile leaves the
\* file byte for byte as it was; replaceInLargeFile writes the scanner's lines back
\* with one newline after each, which is the content byte for byte exactly when the
\* content is empty or ends with a newline and has no carriage return before a line end
C14_NoMatchSameLines ==
    ~Occurs(hist.before.content, search)
        => /\ SmallDone => fs[TestPath] = hist.before
           /\ LargeDone =>
                 /\ fs[TestPath].content = Copied(ScanLines(hist.before.content))
                 /\ fs[TestPath].content = hist.before.content
                        <=> Terminated(hist.before.content)

\* replaceInLargeFile has rewritten a content without a final newline in which search
\* does not occur
C14_Witness ==
    /\ LargeDone /\ hist.calls = 1
    /\ ~Occurs(hist.before.content, search)
    /\ hist.before.content # <<>>
    /\ hist.before.content[Len(hist.before.content)] # NL
    /\ fs[TestPath].content = hist.before.content \o <<NL>>

\* the bytes of s
Bytes(s) == {s[i] : i \in 1 .. Len(s)}

\* replaceInFile has returned from its second call on the file
SecondDone == SmallDone /\ hist.calls = 2

\* C15 as stated: for a non-empty search that does not occur in replace, a second
\* application of the replacement to the once-replaced content changes nothing
C15_IdempotentIfNotInReplace ==
    (SecondDone /\ search # <<>> /\ ~Occurs(replace, search))
        => fs[TestPath] = hist.before

\* C15 amended: for a non-empty search that does not occur in replace, a second
\* application changes nothing exactly when search does not occur in the once-replaced
\* content; that is so whenever replace is non-empty and has no byte in common with
\* search
C15_IdempotentIfDisjoint ==
    (SecondDone /\ search # <<>> /\ ~Occurs(replace, search))
        => /\ fs[TestPath] = hist.before <=> ~Occurs(hist.before.content, search)
           /\ (replace # <<>> /\ Bytes(replace) \cap Bytes(search) = {})
                 => fs[TestPath] = hist.before

\* the first call replaced an occurrence by a replace that shares no byte with search,
\* and the second call has returned
C15_Witness ==
    /\ SecondDone /\ search # <<>>
    /\ replace # <<>> /\ Bytes(replace) \cap Bytes(search) = {}
    /\ Occurs(hist.orig[TestPath].content, search)
    /\ hist.before # hist.orig[TestPath]
    /\ fs[TestPath] = hist.before

\* how many times the walker has pushed path p to a queue
Pushes(p) == Cardinality({i \in 1 .. Len(hist.enq) : hist.enq[i].path = p})

\* C16: the walker pushes the path of a regular file, whatever its depth below the
\* root, never more than once, and exactly once by the time a walk that saw no
\* cancellation has returned
C16_PushedExactlyOnce ==
    /\ \A p \in FilePaths : Pushes(p) <= 1
    /\ (wpc = "done" /\ ~hist.observed) => \A p \in WalkedFiles : Pushes(p) = 1

\* C17: every run goes on until main has exited: there is no state before that in
\* which no goroutine can take a step, the walker blocked on a full queue, the
\* workers blocked on an empty queue that is not closed or gone, and main blocked in
\* wg.Wait short of the report
C17_RunsToTheReport ==
    mpc = "exited" \/ ENABLED Next

\* C18: once a per-entry check of the walker, at any nesting depth, has seen ctx done,
\* the walker sends no further path, and the top-level walk returns the cancellation
\* error
C18_CancellationPropagates ==
    hist.observed
        => /\ wpc \notin {"sendLarge", "sendSmall"}
           /\ wpc = "done" => walkRet = <<ctxErr>>

\* C19: when a read or write step of replaceInLargeFile fails, the scan, a buffered
\* write or the final flush, the call returns an error, nothing is renamed over the
\* original and the original's content is as it was
C19_IOFailureLeavesOriginal ==
    (TestReturned /\ hist.fault \in {"scan", "write", "flush"})
        => /\ call[Tester].ret # nil
           /\ fs[TestPath] = hist.orig[TestPath]

\* C20: on every return of replaceInLargeFile after the temp file was created,
\* with nil, on cancellation, on a scan error, a write error or a failed rename, no
\* file is left under the temp name: it was renamed over the original, which then
\* holds what was written to it, or it was removed
C20_TempNeverOutlivesCall ==
    (TestReturned /\ hist.fault # "createtemp"
                  /\ call[Tester].ret # Err("open", TestPath))
        => /\ ~call[Tester].tmp
           /\ call[Tester].ret # nil => fs[TestPath] = hist.orig[TestPath]
           /\ (call[Tester].ret = nil /\ hist.fault = "none")
                 => fs[TestPath] = call[Tester].out

\* the rename failed after every line had been written to the temp file
C20_Witness ==
    /\ TestReturned /\ hist.fault = "rename"
    /\ call[Tester].ret = Err("rename", TestPath)
    /\ call[Tester].out.content # <<>>

====
